---- MODULE Spec2Model ----
(***************************************************************************)
(* The incremental-render session of ekki: RenderWindow::redraw            *)
(* (src/ui/windows/render.rs) driving a RendererPlugin                     *)
(* (src/plugins/mod.rs) whose worker thread runs the plugin's              *)
(* begin_incremental_render entry point.  The host's redraw is split into  *)
(* the steps between which the worker can be scheduled; every plugin       *)
(* method is an operator of its own.                                       *)
(***************************************************************************)
EXTENDS Integers, Sequences, FiniteSets, TLC

\* ------------------------------------------------------------- bounds ----
\* Largest render_width and render_height a caller passes to load_plugin.
MaxDim == 5
\* Bits of the model's u32: the program's 32, scaled with the image sizes.
WordBits == 6
\* RendererPlugin values load_plugin may create in one run.
MaxSessions == 2
\* Buffer writes the workers of one run perform, all sessions together (a
\* buffer's content is its version).
MaxWrites == 1
\* egui's clock (seconds) stops advancing here.
MaxTime == 2

Sessions == 1..MaxSessions

\* renderer_plugin: None
NoPlugin == 0

\* time_of_last_render_preview_update: f64::NEG_INFINITY, or a finite time <<t>>
NEG_INFINITY == <<>>

\* Values the settings slider (1..=10) and the default give preview_update_frequency.
PreviewFrequencies == {1, 2}

VARIABLES
    \* ---- RenderWindow (render.rs:5-18)
    renderer_plugin,                     \* NoPlugin or the session it holds
    render_in_progress,
    should_begin_render,
    should_transfer_render_data,
    render_preview_update_requested,
    time_of_last_render_preview_update,
    preview_update_frequency,
    reload_renderer,
    texture,                             \* <<>> or <<version shown>>
    \* ---- egui's input time and the host's position inside redraw
    time,
    pc,
    load_result,                         \* redraw's local Result of load_plugin (render.rs:143)
    poll_result,                         \* what poll_read_request returned in this redraw
    render_progress,                     \* redraw's local render_progress (render.rs:201)
    \* ---- RendererPlugin, one per session (plugins/mod.rs:8-16)
    n_loaded,                            \* sessions created so far
    thread_handle,                       \* "None" | "Some"
    read_request,
    ready_to_read,
    render_rgb_data,                     \* what the worker has written (version)
    strong,                              \* Arc strong counts of the four Arcs
    has_entry_point,                     \* library exports begin_incremental_render
    \* ---- the worker thread of each session
    worker_pc,                           \* "none" | "start" | "running" | "waiting" | "done"
    worker_result,                       \* "none" | "Ok" | "Err"
    join_returned,                       \* what join_thread gave its caller
    \* ---- a caller of the RendererPlugin methods
    panicked,                            \* the calling thread has panicked
    ret,                                 \* <<method, value>> of the last call
    \* ---- one RendererPlugin's image data (plugins/mod.rs:13-15)
    render_width,
    render_height,
    rgb_vec,                             \* [ptr, data]: the Vec<f32> inside the Arc
    image,                               \* NoImage or the ColorImage convert returned
    reads,                               \* buffer indices convert has read, in order
    \* ---- one call of ExternalRenderer::update_render_preview (custom_renderer.rs:36-58)
    preview,                             \* NoPreview or its arguments, allocation and result
    \* ---- the event loop of main (main.rs:374-660)
    input_state,                         \* InputState (input.rs:10-13)
    event_loop,                          \* the last pass: its event and what it dispatched
    \* ---- the console's logger (ui/console.rs)
    LOG_BUFFER,                          \* the static LogBuffer behind its Mutex
    record                               \* <<>> or the last log::Record given to EguiLogger::log

window_vars == <<renderer_plugin, render_in_progress, should_begin_render,
                 should_transfer_render_data, render_preview_update_requested,
                 time_of_last_render_preview_update, preview_update_frequency,
                 reload_renderer, texture>>
loop_vars == <<time, pc, load_result, poll_result, render_progress>>
plugin_vars == <<n_loaded, thread_handle, read_request, ready_to_read,
                 render_rgb_data, strong, has_entry_point>>
thread_vars == <<worker_pc, worker_result, join_returned>>
call_vars == <<panicked, ret>>
image_vars == <<render_width, render_height, rgb_vec, image, reads>>
main_vars == <<input_state, event_loop, LOG_BUFFER, record>>
vars == <<window_vars, loop_vars, plugin_vars, thread_vars, call_vars, image_vars, preview,
          main_vars>>

\* The four Arcs of a RendererPlugin, each with the given strong count.
ArcCounts(n) ==
    [library |-> n, read_request |-> n, ready_to_read |-> n, render_rgb_data |-> n]

AddArc(c, d) ==
    [library |-> c.library + d, read_request |-> c.read_request + d,
     ready_to_read |-> c.ready_to_read + d, render_rgb_data |-> c.render_rgb_data + d]

\* The worker's entry-point thread is still executing.
WorkerExecuting(s) == worker_pc[s] \in {"start", "running", "waiting"}

\* The plugin contract: the worker writes the buffer only while running.
WorkerMayWrite(s) == worker_pc[s] = "running"

\* ---------------------------------------------------------------- Init ----
\* No call has been made and no image data is looked at: the window's sessions
\* carry their buffer as render_rgb_data's version.
NoCalls ==
    /\ panicked = FALSE
    /\ ret = <<>>

NoImage == <<>>

NoImageData ==
    /\ render_width = 0
    /\ render_height = 0
    /\ rgb_vec = [ptr |-> 0, data |-> <<>>]
    /\ image = NoImage
    /\ reads = <<>>

\* RenderWindow::create (render.rs:43-56); no plugin has been loaded.
WindowCreated ==
    /\ renderer_plugin = NoPlugin
    /\ render_in_progress = FALSE
    /\ should_begin_render = FALSE
    /\ should_transfer_render_data = TRUE
    /\ render_preview_update_requested = FALSE
    /\ time_of_last_render_preview_update = NEG_INFINITY
    /\ preview_update_frequency \in PreviewFrequencies
    /\ reload_renderer = FALSE
    /\ texture = <<>>
    /\ time = 0
    /\ pc = "begin"
    /\ load_result = "none"
    /\ poll_result = FALSE
    /\ render_progress = 0

\* No update_render_preview call is looked at.
NoPreview == <<>>

\* Option<T>
None == <<>>
Some(v) == <<v>>

\* MouseState::default (input.rs:57-66)
MouseStateDefault ==
    [lmb_pressed |-> FALSE, lmb_released |-> FALSE,
     cursor_pos_on_pressed |-> None, curr_cursor_pos |-> <<0, 0>>]

\* KeyboardState::default (input.rs:79-86)
KeyboardStateDefault == [shift_pressed |-> FALSE, shift_released |-> FALSE]

\* InputState::default (input.rs:15-22)
InputStateDefault == [mouse |-> MouseStateDefault, keyboard |-> KeyboardStateDefault]

\* log::Level and log::LevelFilter, in their order (Error < Warn < Info < ...)
Error == 1
Info == 3

\* LOG_BUFFER's max_lines (100 in console.rs:68), scaled.
MaxLines == 2

\* LibraryLogFilter::const_default (console.rs:97-102)
LibraryLogFilterDefault == [enabled |-> FALSE, log_level_filter |-> Error]

\* LogBuffer::new (console.rs:71-79), LogFilter::const_default (console.rs:111-116)
LogBufferNew(max_lines, log_level_filter) ==
    [lines |-> <<>>,
     max_lines |-> max_lines,
     log_level_filter |-> log_level_filter,
     filter |-> [wgpu |-> LibraryLogFilterDefault, winit |-> LibraryLogFilterDefault],
     is_paused |-> FALSE]

\* main.rs:374 and console.rs:68: the event loop has handled no event, nothing
\* has been logged.
MainStarted ==
    /\ input_state = InputStateDefault
    /\ event_loop = [event |-> None, input_events |-> <<>>, orbit |-> None,
                     panicked |-> FALSE]
    /\ LOG_BUFFER = LogBufferNew(MaxLines, Info)
    /\ record = None

Init ==
    /\ NoCalls
    /\ NoImageData
    /\ preview = NoPreview
    /\ MainStarted
    /\ WindowCreated
    /\ n_loaded = 0
    /\ thread_handle = [s \in Sessions |-> "None"]
    /\ read_request = [s \in Sessions |-> FALSE]
    /\ ready_to_read = [s \in Sessions |-> FALSE]
    /\ render_rgb_data = [s \in Sessions |-> 0]
    /\ strong = [s \in Sessions |-> ArcCounts(0)]
    /\ has_entry_point = [s \in Sessions |-> FALSE]
    /\ worker_pc = [s \in Sessions |-> "none"]
    /\ worker_result = [s \in Sessions |-> "none"]
    /\ join_returned = [s \in Sessions |-> "none"]

\* ------------------------------------------------ RendererPlugin methods ----

\* Dropping a RendererPlugin value: its four Arcs lose the host's reference and
\* the JoinHandle, if any, is dropped (the thread is detached, not stopped).
DropPlugin(s, counts, handles) ==
    IF s = NoPlugin
    THEN <<counts, handles>>
    ELSE <<[counts EXCEPT ![s] = AddArc(@, -1)], [handles EXCEPT ![s] = "None"]>>

\* RendererPlugin::reload is called by redraw but is not in src/; §5 of the spec:
\* the current worker is left to finish or abandoned, the caller then builds a
\* fresh session.  It returns Ok and changes nothing of the session.
reload(s) == "Ok"

\* A begin_incremental_render that hands the thread plain pointers, no Arc clones.
begin_incremental_render_borrowed(s, counts) ==
    /\ strong' = counts
    /\ worker_pc' = [worker_pc EXCEPT ![s] = "start"]

\* RendererPlugin::begin_incremental_render: clones the four Arcs into the
\* closure and spawns the worker; the handle replaces whatever was stored.
begin_incremental_render(s, counts) ==
    /\ strong' = [counts EXCEPT ![s] = AddArc(@, 1)]
    /\ worker_pc' = [worker_pc EXCEPT ![s] = "start"]

\* A request_read that flips the flag instead of setting it.
request_read_toggle(s) == read_request' = [read_request EXCEPT ![s] = ~@]

\* RendererPlugin::request_read
request_read(s) == read_request' = [read_request EXCEPT ![s] = TRUE]

\* RendererPlugin::poll_read_request: the value returned ...
poll_returns(s) == ready_to_read[s]

\* A poll_read_request that clears read_request but leaves ready_to_read set.
poll_read_request_keeps_ready(s) ==
    /\ read_request' = [read_request EXCEPT ![s] = FALSE]
    /\ UNCHANGED ready_to_read

\* A poll_read_request that clears both flags without testing ready_to_read.
poll_read_request_unconditional(s) ==
    /\ read_request' = [read_request EXCEPT ![s] = FALSE]
    /\ ready_to_read' = [ready_to_read EXCEPT ![s] = FALSE]

\* ... and its effect on the flags.
poll_read_request(s) ==
    IF ready_to_read[s]
    THEN /\ read_request' = [read_request EXCEPT ![s] = FALSE]
         /\ ready_to_read' = [ready_to_read EXCEPT ![s] = FALSE]
    ELSE UNCHANGED <<read_request, ready_to_read>>

\* A render_is_finished that reports any stored handle as finished.
render_is_finished_any_handle(s) == thread_handle[s] = "Some"

\* RendererPlugin::render_is_finished
render_is_finished(s) ==
    IF thread_handle[s] = "Some" THEN worker_pc[s] = "done" ELSE FALSE

\* What join_thread hands back to its caller for a worker that ended with
\* `result`: `let _ = handle.unwrap().join();` drops it, the method returns ().
join_value(result) == "unit"

\* join_thread where no handle is stored: `handle.unwrap()` on None panics.
join_thread_panics(s) == thread_handle[s] = "None"

\* A join_thread that joins through a reference and keeps the handle stored.
join_thread_keeps_handle(s) ==
    /\ thread_handle[s] = "Some"
    /\ worker_pc[s] = "done"
    /\ UNCHANGED thread_handle
    /\ join_returned' = [join_returned EXCEPT ![s] = join_value(worker_result[s])]

\* RendererPlugin::join_thread with a stored handle: the handle is taken out of
\* the session, then JoinHandle::join waits until the worker's thread has ended.
join_thread(s) ==
    /\ thread_handle[s] = "Some"
    /\ worker_pc[s] = "done"
    /\ thread_handle' = [thread_handle EXCEPT ![s] = "None"]
    /\ join_returned' = [join_returned EXCEPT ![s] = join_value(worker_result[s])]

\* RendererPlugin::convert_rgb_data_to_egui_image: the images the host's read of
\* the buffer can give.  The buffer is plain memory the worker writes through a
\* raw pointer (plugins/mod.rs:115) and the flags are plain bools, so a read
\* while the worker's thread is alive races with its writes and nothing orders
\* it after them: it sees the current content or an earlier one.  A thread that
\* has ended has published all its writes.
convert_rgb_data_to_egui_image(s) ==
    IF worker_pc[s] = "done"
    THEN {<<render_rgb_data[s]>>}
    ELSE {<<v>> : v \in 0..render_rgb_data[s]}

\* ------------------------------------------------ RenderWindow::redraw ----

\* render.rs:132-138: a pending Reload of a loaded plugin asks for a new render
Reloading ==
    reload_renderer /\ renderer_plugin # NoPlugin /\ reload(renderer_plugin) = "Ok"

\* A failed load that still marks the render as in progress.
LoadFailed_enters_progress ==
    /\ load_result' = "Err"
    /\ render_in_progress' = TRUE
    /\ UNCHANGED <<renderer_plugin, plugin_vars, thread_vars>>

\* render.rs:145-146: load_plugin returned Err; the error is logged, nothing else
LoadFailed ==
    /\ load_result' = "Err"
    /\ UNCHANGED <<renderer_plugin, render_in_progress, plugin_vars, thread_vars>>

\* render.rs:147-155 after RendererPlugin::load_plugin (plugins/mod.rs:19-35)
\* returned Ok: the new plugin replaces (and drops) the old one, its worker is
\* spawned at once.
LoadSucceeded(exports) ==
    LET s == n_loaded + 1
        dropped == DropPlugin(renderer_plugin, strong, thread_handle)
        counts == [dropped[1] EXCEPT ![s] = ArcCounts(1)]
    IN /\ load_result' = "Ok"
       /\ n_loaded' = s
       /\ has_entry_point' = [has_entry_point EXCEPT ![s] = exports]
       /\ renderer_plugin' = s
       /\ begin_incremental_render(s, counts)
       /\ thread_handle' = [dropped[2] EXCEPT ![s] = "Some"]
       /\ render_in_progress' = TRUE
       /\ UNCHANGED <<read_request, ready_to_read, render_rgb_data,
                      worker_result, join_returned>>

\* render.rs:131-156: the start of redraw.  The library at renderer_path loads
\* or not, and exports the entry point or not.
RedrawBegin ==
    /\ pc = "begin"
    /\ pc' = "request"
    /\ reload_renderer' = (reload_renderer /\ ~Reloading)
    /\ should_begin_render' = FALSE
    /\ IF should_begin_render \/ Reloading
       THEN \/ LoadFailed
            \/ /\ n_loaded < MaxSessions
               /\ \E exports \in BOOLEAN : LoadSucceeded(exports)
       ELSE UNCHANGED <<renderer_plugin, render_in_progress, load_result,
                        plugin_vars, thread_vars>>
    /\ UNCHANGED <<should_transfer_render_data, render_preview_update_requested,
                   time_of_last_render_preview_update, preview_update_frequency,
                   texture, time, render_progress, poll_result>>

\* A due test that does not compare the time.
UpdateDue_ignores_time == ~render_preview_update_requested

\* render.rs:160-163
UpdateDue ==
    /\ \/ time_of_last_render_preview_update = NEG_INFINITY
       \/ /\ time_of_last_render_preview_update # NEG_INFINITY
          /\ time - time_of_last_render_preview_update[1] > preview_update_frequency
    /\ ~render_preview_update_requested

\* A request step that does not look at render_in_progress.
RedrawRequest_ignores_progress ==
    /\ pc = "request"
    /\ IF renderer_plugin # NoPlugin
       THEN /\ pc' = "poll"
            /\ IF UpdateDue
               THEN /\ request_read(renderer_plugin)
                    /\ render_preview_update_requested' = TRUE
               ELSE UNCHANGED <<read_request, render_preview_update_requested>>
       ELSE /\ pc' = "progress"
            /\ UNCHANGED <<read_request, render_preview_update_requested>>
    /\ load_result' = "none"
    /\ UNCHANGED <<poll_result, renderer_plugin, render_in_progress, should_begin_render,
                   should_transfer_render_data, time_of_last_render_preview_update,
                   preview_update_frequency, reload_renderer, texture, time, render_progress,
                   n_loaded, thread_handle, ready_to_read, render_rgb_data,
                   strong, has_entry_point, thread_vars>>

\* render.rs:158-167
RedrawRequest ==
    /\ pc = "request"
    /\ IF renderer_plugin # NoPlugin /\ render_in_progress
       THEN /\ pc' = "poll"
            /\ IF UpdateDue
               THEN /\ request_read(renderer_plugin)
                    /\ render_preview_update_requested' = TRUE
               ELSE UNCHANGED <<read_request, render_preview_update_requested>>
       ELSE /\ pc' = "progress"
            /\ UNCHANGED <<read_request, render_preview_update_requested>>
    /\ load_result' = "none"
    /\ UNCHANGED <<poll_result, renderer_plugin, render_in_progress, should_begin_render,
                   should_transfer_render_data, time_of_last_render_preview_update,
                   preview_update_frequency, reload_renderer, texture, time, render_progress,
                   n_loaded, thread_handle, ready_to_read, render_rgb_data,
                   strong, has_entry_point, thread_vars>>

\* render.rs:169-173
RedrawPoll ==
    /\ pc = "poll"
    /\ pc' = "check"
    /\ IF render_preview_update_requested
       THEN /\ poll_read_request(renderer_plugin)
            /\ poll_result' = poll_returns(renderer_plugin)
            /\ should_transfer_render_data' =
                   (poll_returns(renderer_plugin) \/ should_transfer_render_data)
       ELSE UNCHANGED <<read_request, ready_to_read, should_transfer_render_data,
                        poll_result>>
    /\ UNCHANGED <<renderer_plugin, render_in_progress, should_begin_render,
                   render_preview_update_requested, time_of_last_render_preview_update,
                   preview_update_frequency, reload_renderer, texture, time, render_progress, load_result,
                   n_loaded, thread_handle, render_rgb_data, strong,
                   has_entry_point, thread_vars>>

\* render.rs:175: the condition under which the buffer is converted
RedrawCheck ==
    /\ pc = "check"
    /\ pc' = IF should_transfer_render_data \/ render_is_finished(renderer_plugin)
             THEN "convert" ELSE "progress"
    /\ UNCHANGED <<window_vars, time, render_progress, load_result, poll_result, plugin_vars, thread_vars>>

\* render.rs:176-181: the read of the buffer ends, the texture is replaced
RedrawConvert ==
    /\ pc = "convert"
    /\ pc' = "reset"
    /\ texture' \in convert_rgb_data_to_egui_image(renderer_plugin)
    /\ UNCHANGED <<renderer_plugin, render_in_progress, should_begin_render,
                   should_transfer_render_data, render_preview_update_requested,
                   time_of_last_render_preview_update, preview_update_frequency,
                   reload_renderer, time, render_progress, load_result, poll_result, plugin_vars, thread_vars>>

\* render.rs:183-196
RedrawReset ==
    /\ pc = "reset"
    /\ pc' = "progress"
    /\ should_transfer_render_data' = FALSE
    /\ time_of_last_render_preview_update' =
           IF render_preview_update_requested
           THEN <<time>> ELSE time_of_last_render_preview_update
    /\ IF render_is_finished(renderer_plugin)
       THEN /\ join_thread(renderer_plugin)
            /\ render_preview_update_requested' = FALSE
            /\ render_in_progress' = FALSE
       ELSE /\ render_preview_update_requested' = FALSE
            /\ UNCHANGED <<render_in_progress, thread_handle, join_returned>>
    /\ UNCHANGED <<renderer_plugin, should_begin_render, preview_update_frequency,
                   reload_renderer, texture, time, render_progress, load_result, poll_result, n_loaded, read_request,
                   ready_to_read, render_rgb_data, strong, has_entry_point,
                   worker_pc, worker_result>>

\* render.rs:224-228: the Render button
ClickRender ==
    /\ should_begin_render' = (should_begin_render \/ renderer_plugin = NoPlugin)
    /\ UNCHANGED <<reload_renderer, preview_update_frequency>>

\* render.rs:230-232: the Reload button
ClickReload ==
    /\ reload_renderer' = TRUE
    /\ UNCHANGED <<should_begin_render, preview_update_frequency>>

\* render.rs:333-334: the settings slider
SetFrequency ==
    /\ \E f \in PreviewFrequencies \ {preview_update_frequency} :
           preview_update_frequency' = f
    /\ UNCHANGED <<should_begin_render, reload_renderer>>

\* RendererPlugin::get_render_progress is called by redraw but is not in src/;
\* spec.md section 4.2 `progress() -> f32`: best-effort, read without
\* synchronisation, never blocks.  The values it may hand back, in thousandths:
\* below 0, inside [0,1], above 1.
get_render_progress(s) == {-500, 500, 1500}

\* A clamp that only bounds from above.
clamp_upper_only(v, lo, hi) == IF v > hi THEN hi ELSE v

\* f32::clamp
clamp(v, lo, hi) == IF v < lo THEN lo ELSE IF v > hi THEN hi ELSE v

\* render.rs:201-206
RedrawProgress ==
    /\ pc = "progress"
    /\ pc' = "ui"
    /\ \E v \in (IF renderer_plugin = NoPlugin
                 THEN {0} ELSE get_render_progress(renderer_plugin)) :
           render_progress' = clamp(v, 0, 1000)
    /\ UNCHANGED <<window_vars, time, load_result, poll_result, plugin_vars, thread_vars>>

\* render.rs:208-297: the frame's UI; begin_frame takes the new input time
RedrawUi ==
    /\ pc = "ui"
    /\ pc' = "begin"
    /\ poll_result' = FALSE
    /\ render_progress' = 0
    /\ \E t \in {time, time + 1} : t <= MaxTime /\ time' = t
    /\ \/ ClickRender
       \/ ClickReload
       \/ SetFrequency
       \/ UNCHANGED <<should_begin_render, reload_renderer, preview_update_frequency>>
    /\ UNCHANGED <<renderer_plugin, render_in_progress, should_transfer_render_data,
                   render_preview_update_requested, time_of_last_render_preview_update,
                   texture, load_result, plugin_vars, thread_vars>>

\* ---------------------------------------------------- the worker thread ----

\* The closure ends: its four Arc clones are dropped with it.
WorkerEnds(s, result) ==
    /\ worker_pc' = [worker_pc EXCEPT ![s] = "done"]
    /\ worker_result' = [worker_result EXCEPT ![s] = result]
    /\ strong' = [strong EXCEPT ![s] = AddArc(@, -1)]

\* plugins/mod.rs:117-118: lib_thread.get(b"begin_incremental_render\0")?
WorkerResolve(s) ==
    /\ worker_pc[s] = "start"
    /\ IF has_entry_point[s]
       THEN /\ worker_pc' = [worker_pc EXCEPT ![s] = "running"]
            /\ UNCHANGED <<worker_result, strong>>
       ELSE WorkerEnds(s, "Err")
    /\ UNCHANGED <<window_vars, loop_vars, n_loaded, thread_handle, read_request,
                   ready_to_read, render_rgb_data, has_entry_point, join_returned>>

\* The plugin inside (symbol)(...), plugins/mod.rs:119-125, obeying the contract of
\* plugins/mod.rs:82-97: it writes rgb_data while it has not raised ready_to_read,
WorkerWrite(s) ==
    /\ WorkerMayWrite(s)
    /\ Cardinality({<<r, k>> \in Sessions \X (1..MaxWrites) : k <= render_rgb_data[r]}) < MaxWrites
    /\ render_rgb_data' = [render_rgb_data EXCEPT ![s] = @ + 1]
    /\ UNCHANGED <<window_vars, loop_vars, n_loaded, thread_handle, read_request,
                   ready_to_read, strong, has_entry_point, thread_vars>>

\* raises ready_to_read when it sees read_request,
WorkerReady(s) ==
    /\ worker_pc[s] = "running"
    /\ read_request[s]
    /\ ready_to_read' = [ready_to_read EXCEPT ![s] = TRUE]
    /\ worker_pc' = [worker_pc EXCEPT ![s] = "waiting"]
    /\ UNCHANGED <<window_vars, loop_vars, n_loaded, thread_handle, read_request,
                   render_rgb_data, strong, has_entry_point,
                   worker_result, join_returned>>

\* resumes when it sees ready_to_read cleared,
WorkerResume(s) ==
    /\ worker_pc[s] = "waiting"
    /\ ~ready_to_read[s]
    /\ worker_pc' = [worker_pc EXCEPT ![s] = "running"]
    /\ UNCHANGED <<window_vars, loop_vars, plugin_vars, worker_result, join_returned>>

\* and returns when its render is complete.
WorkerReturn(s) ==
    /\ worker_pc[s] = "running"
    /\ WorkerEnds(s, "Ok")
    /\ UNCHANGED <<window_vars, loop_vars, n_loaded, thread_handle, read_request,
                   ready_to_read, render_rgb_data, has_entry_point, join_returned>>

Worker(s) ==
    \/ WorkerResolve(s)
    \/ WorkerWrite(s)
    \/ WorkerReady(s)
    \/ WorkerResume(s)
    \/ WorkerReturn(s)

Redraw ==
    \/ RedrawBegin
    \/ RedrawRequest
    \/ RedrawPoll
    \/ RedrawCheck
    \/ RedrawConvert
    \/ RedrawReset
    \/ RedrawProgress
    \/ RedrawUi

\* The window's sessions make no direct method calls and carry no image data.
WindowFrame == UNCHANGED <<call_vars, image_vars, preview, main_vars>>

Next ==
    \/ RedrawBegin /\ WindowFrame
    \/ RedrawRequest /\ WindowFrame
    \/ RedrawPoll /\ WindowFrame
    \/ RedrawCheck /\ WindowFrame
    \/ RedrawConvert /\ WindowFrame
    \/ RedrawReset /\ WindowFrame
    \/ RedrawProgress /\ WindowFrame
    \/ RedrawUi /\ WindowFrame
    \/ \E s \in Sessions : WorkerResolve(s) /\ WindowFrame
    \/ \E s \in Sessions : WorkerWrite(s) /\ WindowFrame
    \/ \E s \in Sessions : WorkerReady(s) /\ WindowFrame
    \/ \E s \in Sessions : WorkerResume(s) /\ WindowFrame
    \/ \E s \in Sessions : WorkerReturn(s) /\ WindowFrame

Spec == Init /\ [][Next]_vars

\* ------------------------------------------- the image data of a session ----

\* u32 arithmetic in a build without overflow checks wraps.
U32Modulus == 2 ^ WordBits
U32(n) == n % U32Modulus

\* f32 values are written in thousandths; 1.0, the value load_plugin fills with.
Sentinel == 1000

\* color::Color32::WHITE, the value convert pre-fills its pixels with
WHITE == <<255, 255, 255>>

\* `(3 * render_width * render_height) as usize` (plugins/mod.rs:31) on u32
\* operands: the value in a wrapping build, and whether a product overflowed
\* (a build with overflow checks panics there).
BufferLen(w, h) == U32(U32(3 * w) * h)
BufferLenOverflows(w, h) == 3 * w >= U32Modulus \/ U32(3 * w) * h >= U32Modulus

\* A plugin write that leaves the Vec one entry shorter.
Pattern_shrinks(k, len) ==
    [i \in 1..(IF k = 0 THEN len ELSE len - 1) |-> IF k = 0 THEN Sentinel ELSE 0]

\* What the plugin has stored in a buffer of `len` entries after its k-th pass
\* over it through the raw pointer (plugins/mod.rs:115): the untouched sentinel,
\* a 1,0,0,0 repetition, then ramps.  Entries are written in place.
Pattern(k, len) ==
    [i \in 1..len |->
        IF k = 0 THEN Sentinel
        ELSE IF k = 1 THEN (IF (i - 1) % 4 = 0 THEN Sentinel ELSE 0)
        ELSE (((i - 1) * Sentinel) \div len + (k - 2) * 125) % (Sentinel + 1)]

\* RendererPlugin::load_plugin(path, w, h) has returned session s to a caller
\* that holds it: no worker, both flags false, the buffer filled with 1.0.  With
\* overflow checks the size computation panics instead where it overflows.
load_plugin(s, w, h, exports) ==
    /\ render_width = w
    /\ render_height = h
    /\ image = NoImage
    /\ reads = <<>>
    /\ thread_handle = [x \in Sessions |-> "None"]
    /\ read_request = [x \in Sessions |-> FALSE]
    /\ ready_to_read = [x \in Sessions |-> FALSE]
    /\ render_rgb_data = [x \in Sessions |-> 0]
    /\ worker_pc = [x \in Sessions |-> "none"]
    /\ worker_result = [x \in Sessions |-> "none"]
    /\ join_returned = [x \in Sessions |-> "none"]
    /\ \/ /\ panicked = FALSE
          /\ ret = <<"load_plugin", "Ok">>
          /\ n_loaded = s
          /\ strong = [x \in Sessions |-> IF x = s THEN ArcCounts(1) ELSE ArcCounts(0)]
          /\ has_entry_point = [x \in Sessions |-> x = s /\ exports]
          /\ rgb_vec = [ptr |-> s, data |-> Pattern(0, BufferLen(w, h))]
       \/ /\ BufferLenOverflows(w, h)
          /\ exports
          /\ panicked = TRUE
          /\ ret = <<"load_plugin", "panic">>
          /\ n_loaded = 0
          /\ strong = [x \in Sessions |-> ArcCounts(0)]
          /\ has_entry_point = [x \in Sessions |-> FALSE]
          /\ rgb_vec = [ptr |-> 0, data |-> <<>>]

\* A channel conversion that scales to a percentage.
Channel_as_percent(v) == v \div 10

\* `(v * 255.999) as u8` (plugins/mod.rs:141-143): the float-to-u8 cast
\* truncates toward zero and saturates at 0 and 255.
Channel(v) ==
    LET c == (v * 255999) \div 1000000
    IN  IF c > 255 THEN 255 ELSE IF c < 0 THEN 0 ELSE c

\* The (x, y) pairs of convert's loops in the order they run: x outer, y inner.
LoopOrder(w, h) == [n \in 1..(w * h) |-> <<(n - 1) \div h, (n - 1) % h>>]

\* A start index that leaves out the factor 3.
StartIdx_unscaled(x, y, w) == U32(x + U32(y * w))

\* `(3 * x + 3 * y * self.render_width) as usize` (plugins/mod.rs:136)
StartIdx(x, y, w) == U32(U32(3 * x) + U32(U32(3 * y) * w))

\* `(x + y * self.render_width) as usize` (plugins/mod.rs:151)
PixelIdx(x, y, w) == U32(x + U32(y * w))

\* RendererPlugin::convert_rgb_data_to_egui_image on a buffer `data` (entry i of
\* the Vec is data[i + 1]): the pixels, the size, the buffer indices read in
\* order, and whether an `unwrap` of `get` or the index into `colors` panicked.
convert_rgb_data(w, h, data) ==
    LET len == Len(data)
        ncolors == U32(w * h)
        order == LoopOrder(w, h)
        start(n) == StartIdx(order[n][1], order[n][2], w)
        idx(n) == PixelIdx(order[n][1], order[n][2], w)
        faults(n) == start(n) + 2 >= len \/ idx(n) >= ncolors
        faulting == {n \in 1..(w * h) : faults(n)}
        fault == IF faulting = {} THEN 0
                 ELSE CHOOSE n \in faulting : \A m \in faulting : n <= m
        done == IF fault = 0 THEN w * h ELSE fault - 1
        full == [k \in 1..(3 * done) |-> start((k - 1) \div 3 + 1) + ((k - 1) % 3)]
        partial == IF fault = 0 THEN <<>>
                   ELSE [k \in 1..Cardinality({j \in 0..2 : start(fault) + j < len})
                            |-> start(fault) + k - 1]
        color(n) == <<Channel(data[start(n) + 1]), Channel(data[start(n) + 2]),
                      Channel(data[start(n) + 3])>>
        writers(p) == {n \in 1..done : idx(n) = p}
        last(p) == CHOOSE n \in writers(p) : \A m \in writers(p) : m <= n
    IN  [panics |-> fault # 0,
         size |-> <<w, h>>,
         pixels |-> [q \in 1..ncolors |->
                        IF writers(q - 1) = {} THEN WHITE ELSE color(last(q - 1))],
         reads |-> full \o partial]

\* -------------------------------- a caller of the RendererPlugin methods ----
\* One RendererPlugin, as load_plugin returned it, whose public methods a
\* caller invokes in any order while the worker runs.  The caller starts a new
\* worker only once the previous one has ended.

\* The RendererPlugin value the calls are made on.
Plugin == 1

Dims == 1..MaxDim

ApiInit ==
    /\ WindowCreated
    /\ preview = NoPreview
    /\ MainStarted
    /\ \E w \in Dims, h \in Dims, exports \in BOOLEAN : load_plugin(Plugin, w, h, exports)

\* What every method leaves alone.
ApiFrame == UNCHANGED <<window_vars, loop_vars, n_loaded, has_entry_point, image_vars, preview,
                        main_vars>>

ApiBegin ==
    /\ ~panicked
    /\ ~WorkerExecuting(Plugin)
    /\ begin_incremental_render(Plugin, strong)
    /\ thread_handle' = [thread_handle EXCEPT ![Plugin] = "Some"]
    /\ ret' = <<"begin_incremental_render">>
    /\ UNCHANGED <<read_request, ready_to_read, render_rgb_data, worker_result,
                   join_returned, panicked>>
    /\ ApiFrame

ApiRequestRead ==
    /\ ~panicked
    /\ request_read(Plugin)
    /\ ret' = <<"request_read">>
    /\ UNCHANGED <<thread_handle, ready_to_read, render_rgb_data, strong,
                   thread_vars, panicked>>
    /\ ApiFrame

ApiPoll ==
    /\ ~panicked
    /\ poll_read_request(Plugin)
    /\ ret' = <<"poll_read_request", poll_returns(Plugin)>>
    /\ UNCHANGED <<thread_handle, render_rgb_data, strong, thread_vars, panicked>>
    /\ ApiFrame

ApiIsFinished ==
    /\ ~panicked
    /\ ret' = <<"render_is_finished", render_is_finished(Plugin)>>
    /\ UNCHANGED <<thread_handle, read_request, ready_to_read, render_rgb_data,
                   strong, thread_vars, panicked>>
    /\ ApiFrame

ApiJoin ==
    /\ ~panicked
    /\ IF join_thread_panics(Plugin)
       THEN /\ panicked' = TRUE
            /\ ret' = <<"join_thread", "panic">>
            /\ UNCHANGED <<thread_handle, join_returned>>
       ELSE /\ join_thread(Plugin)
            /\ ret' = <<"join_thread", join_value(worker_result[Plugin])>>
            /\ UNCHANGED panicked
    /\ UNCHANGED <<read_request, ready_to_read, render_rgb_data, strong,
                   worker_pc, worker_result>>
    /\ ApiFrame

ApiConvert ==
    /\ ~panicked
    /\ \E img \in convert_rgb_data_to_egui_image(Plugin) :
           ret' = <<"convert_rgb_data_to_egui_image", img>>
    /\ UNCHANGED <<thread_handle, read_request, ready_to_read, render_rgb_data,
                   strong, thread_vars, panicked>>
    /\ ApiFrame

\* With each step of the worker: what it has written is the buffer's content,
\* in place.
ApiWorker ==
    /\ ~panicked
    /\ rgb_vec' = [rgb_vec EXCEPT !.data = Pattern(render_rgb_data'[Plugin], Len(@))]
    /\ UNCHANGED <<call_vars, render_width, render_height, image, reads, preview, main_vars>>

ApiNext ==
    \/ ApiBegin
    \/ ApiRequestRead
    \/ ApiPoll
    \/ ApiIsFinished
    \/ ApiJoin
    \/ ApiConvert
    \/ WorkerResolve(Plugin) /\ ApiWorker
    \/ WorkerWrite(Plugin) /\ ApiWorker
    \/ WorkerReady(Plugin) /\ ApiWorker
    \/ WorkerResume(Plugin) /\ ApiWorker
    \/ WorkerReturn(Plugin) /\ ApiWorker

ApiSpec == ApiInit /\ [][ApiNext]_vars

\* --------------------------- convert_rgb_data_to_egui_image as a function ----
\* Sessions of every size up to MaxDim whose buffer the plugin has filled, and
\* the conversion applied to them.

\* Buffer contents tried: Pattern(0..MaxPattern, len).
MaxPattern == 2

ConvertInit ==
    /\ WindowCreated
    /\ preview = NoPreview
    /\ MainStarted
    /\ \E w \in Dims, h \in Dims : load_plugin(Plugin, w, h, TRUE)

ConvertFrame == UNCHANGED <<window_vars, loop_vars, plugin_vars, thread_vars, preview, main_vars>>

PluginWrites ==
    /\ ~panicked
    /\ \E k \in 0..MaxPattern :
           /\ rgb_vec' = [rgb_vec EXCEPT !.data = Pattern(k, Len(@))]
           /\ rgb_vec' # rgb_vec
    /\ UNCHANGED <<call_vars, render_width, render_height, image, reads, preview, main_vars>>
    /\ ConvertFrame

ConvertCall ==
    /\ ~panicked
    /\ LET r == convert_rgb_data(render_width, render_height, rgb_vec.data)
       IN  /\ panicked' = r.panics
           /\ ret' = <<"convert_rgb_data_to_egui_image", IF r.panics THEN "panic" ELSE "Ok">>
           /\ image' = IF r.panics THEN image ELSE [size |-> r.size, pixels |-> r.pixels]
           /\ reads' = r.reads
    /\ UNCHANGED <<render_width, render_height, rgb_vec>>
    /\ ConvertFrame

ConvertNext == PluginWrites \/ ConvertCall

ConvertSpec == ConvertInit /\ [][ConvertNext]_vars

\* ------------------------------ ExternalRenderer::update_render_preview ----
\* The one-shot path: a Vec<f32> is handed through the plugin's
\* update_render_preview symbol and rebuilt from its raw parts.

\* Capacities of the Vec the caller passes for a w x h image: the documented
\* minimum 3 * w * h, one more, and w * h as in tests::t1 (35 for 5 x 7).
Capacities(w, h) == {w * h, 3 * w * h, 3 * w * h + 1}

\* A call about to be made: the arguments, whether the library exports the
\* symbol, and who owns the Vec's allocation.
PreviewInit ==
    /\ NoCalls
    /\ NoImageData
    /\ WindowCreated
    /\ n_loaded = 0
    /\ thread_handle = [s \in Sessions |-> "None"]
    /\ read_request = [s \in Sessions |-> FALSE]
    /\ ready_to_read = [s \in Sessions |-> FALSE]
    /\ render_rgb_data = [s \in Sessions |-> 0]
    /\ strong = [s \in Sessions |-> ArcCounts(0)]
    /\ has_entry_point = [s \in Sessions |-> FALSE]
    /\ worker_pc = [s \in Sessions |-> "none"]
    /\ worker_result = [s \in Sessions |-> "none"]
    /\ join_returned = [s \in Sessions |-> "none"]
    /\ \E w \in Dims, h \in Dims, exports \in BOOLEAN :
         \E cap \in Capacities(w, h) :
           \E len \in {0, cap} :
             preview = [image_width |-> w, image_height |-> h,
                        rgb_data |-> [ptr |-> 1, len |-> len, cap |-> cap],
                        exports |-> exports,
                        owner |-> "caller",
                        result |-> <<>>]
    /\ MainStarted

\* custom_renderer.rs:42-57: the Vec is forgotten, the symbol looked up (`?`
\* returns its error), the plugin called with the raw pointer, and a Vec
\* rebuilt with `(image_width * image_height) as usize` as length and capacity.
update_render_preview(p) ==
    IF p.exports
    THEN [p EXCEPT !.owner = "result",
                   !.result = <<"Ok", [ptr |-> p.rgb_data.ptr,
                                       len |-> U32(p.image_width * p.image_height),
                                       cap |-> U32(p.image_width * p.image_height)]>>]
    ELSE [p EXCEPT !.owner = "nobody", !.result = <<"Err">>]

UpdateRenderPreview ==
    /\ preview.result = <<>>
    /\ preview' = update_render_preview(preview)
    /\ UNCHANGED <<window_vars, loop_vars, plugin_vars, thread_vars, call_vars, image_vars,
                   main_vars>>

PreviewNext == UpdateRenderPreview

PreviewSpec == PreviewInit /\ [][PreviewNext]_vars

\* ------------------------------------------- the event loop's input state ----
\* One pass of the closure given to event_loop.run (main.rs:375-660) per step:
\* the match on the event, then the dispatch of get_input_events and
\* reset_release_events (main.rs:639-659).

\* The cursor stays within -MaxCursor..MaxCursor on both axes.
MaxCursor == 1

\* MouseMotion deltas tried, per axis.
Deltas == {-1, 0, 1}

\* Nothing but the render window, its plugins and the preview call at rest.
NoRenderWindow ==
    /\ NoCalls
    /\ NoImageData
    /\ WindowCreated
    /\ n_loaded = 0
    /\ thread_handle = [s \in Sessions |-> "None"]
    /\ read_request = [s \in Sessions |-> FALSE]
    /\ ready_to_read = [s \in Sessions |-> FALSE]
    /\ render_rgb_data = [s \in Sessions |-> 0]
    /\ strong = [s \in Sessions |-> ArcCounts(0)]
    /\ has_entry_point = [s \in Sessions |-> FALSE]
    /\ worker_pc = [s \in Sessions |-> "none"]
    /\ worker_result = [s \in Sessions |-> "none"]
    /\ join_returned = [s \in Sessions |-> "none"]
    /\ preview = NoPreview

InputInit == NoRenderWindow /\ MainStarted

\* InputState::get_input_events (input.rs:25-39)
get_input_events(st) ==
    (IF st.mouse.lmb_pressed /\ st.keyboard.shift_pressed
     THEN <<"DoViewportOrbit">> ELSE <<>>)
    \o (IF st.mouse.lmb_released \/ st.keyboard.shift_released
        THEN <<"FinishViewportOrbit">> ELSE <<>>)

\* A reset that clears the mouse's release flag only.
reset_release_events_mouse_only(st) == [st EXCEPT !.mouse.lmb_released = FALSE]

\* InputState::reset_release_events (input.rs:41-44, 69-71, 89-91)
reset_release_events(st) ==
    [st EXCEPT !.mouse.lmb_released = FALSE, !.keyboard.shift_released = FALSE]

\* A press that does not record where the cursor was.
LmbPressed_without_position(st) == [st EXCEPT !.mouse.lmb_pressed = TRUE]

\* main.rs:462-468: MouseInput, left button pressed
LmbPressed(st) ==
    [st EXCEPT !.mouse.lmb_pressed = TRUE,
               !.mouse.cursor_pos_on_pressed =
                   IF @ = None THEN Some(st.mouse.curr_cursor_pos) ELSE @]

\* main.rs:469-473: MouseInput, left button released
LmbReleased(st) ==
    [st EXCEPT !.mouse.lmb_pressed = FALSE,
               !.mouse.lmb_released = TRUE,
               !.mouse.cursor_pos_on_pressed = None]

\* main.rs:435-437: KeyboardInput, LShift pressed
ShiftPressed(st) == [st EXCEPT !.keyboard.shift_pressed = TRUE]

\* main.rs:439-442: KeyboardInput, LShift released
ShiftReleased(st) ==
    [st EXCEPT !.keyboard.shift_pressed = FALSE, !.keyboard.shift_released = TRUE]

\* main.rs:486-489: DeviceEvent::MouseMotion
MouseMotion(st, delta) ==
    [st EXCEPT !.mouse.curr_cursor_pos = <<@[1] - delta[1], @[2] - delta[2]>>]

\* main.rs:639-659 on the state st the match left: the events dispatched, the
\* argument DoViewportOrbit gives turntable_rotate (the `unwrap` of an absent
\* press position panics and ends the pass there), then the reset.
Dispatch(event, st) ==
    LET events == get_input_events(st)
        orbits == \E i \in 1..Len(events) : events[i] = "DoViewportOrbit"
        absent == st.mouse.cursor_pos_on_pressed = None
        pressed == st.mouse.cursor_pos_on_pressed[1]
        curr == st.mouse.curr_cursor_pos
    IN  /\ event_loop' =
               [event |-> Some(event),
                input_events |-> events,
                orbit |-> IF orbits /\ ~absent
                          THEN Some(<<curr[1] - pressed[1], curr[2] - pressed[2]>>)
                          ELSE None,
                panicked |-> orbits /\ absent]
        /\ input_state' = IF orbits /\ absent THEN st ELSE reset_release_events(st)

InputFrame ==
    UNCHANGED <<window_vars, loop_vars, plugin_vars, thread_vars, call_vars, image_vars,
                preview, LOG_BUFFER, record>>

\* main.rs:381-387: egui consumed the window event; the closure returns
EguiConsumed ==
    /\ ~event_loop.panicked
    /\ event_loop' = [event_loop EXCEPT !.event = Some("Consumed"),
                                        !.input_events = <<>>, !.orbit = None]
    /\ UNCHANGED input_state
    /\ InputFrame

OnLmbPressed ==
    /\ ~event_loop.panicked
    /\ Dispatch("LmbPressed", LmbPressed(input_state))
    /\ InputFrame

OnLmbReleased ==
    /\ ~event_loop.panicked
    /\ Dispatch("LmbReleased", LmbReleased(input_state))
    /\ InputFrame

OnShiftPressed ==
    /\ ~event_loop.panicked
    /\ Dispatch("ShiftPressed", ShiftPressed(input_state))
    /\ InputFrame

OnShiftReleased ==
    /\ ~event_loop.panicked
    /\ Dispatch("ShiftReleased", ShiftReleased(input_state))
    /\ InputFrame

OnMouseMotion ==
    /\ ~event_loop.panicked
    /\ \E dx \in Deltas, dy \in Deltas :
           LET st == MouseMotion(input_state, <<dx, dy>>)
           IN  /\ \A i \in 1..2 : st.mouse.curr_cursor_pos[i] \in -MaxCursor..MaxCursor
               /\ Dispatch("MouseMotion", st)
    /\ InputFrame

\* main.rs:478, 491, 636: any event that changes no input state (other keys and
\* buttons, redraws)
OnOtherEvent ==
    /\ ~event_loop.panicked
    /\ Dispatch("Other", input_state)
    /\ InputFrame

InputNext ==
    \/ EguiConsumed
    \/ OnLmbPressed
    \/ OnLmbReleased
    \/ OnShiftPressed
    \/ OnShiftReleased
    \/ OnMouseMotion
    \/ OnOtherEvent

InputSpec == InputInit /\ [][InputNext]_vars

\* ------------------------------------------------ the console's log buffer ----
\* EguiLogger::log called with any record the log macros let through, and the
\* console menu changing the buffer's settings in between.

\* Calls of EguiLogger::log in one run.
MaxRecords == 3

\* Levels of the records and of the filters tried.
Levels == {Error, Info}

\* Targets of the records tried, as their characters: "wgpu_h", "winit", "ekki".
Targets ==
    {<<"w", "g", "p", "u", "_", "h">>, <<"w", "i", "n", "i", "t">>, <<"e", "k", "k", "i">>}

wgpu == <<"w", "g", "p", "u">>
winit == <<"w", "i", "n", "i", "t">>

\* str::starts_with
starts_with(s, prefix) ==
    Len(s) >= Len(prefix) /\ SubSeq(s, 1, Len(prefix)) = prefix

\* Vec::reverse
RECURSIVE reverse(_)
reverse(v) == IF v = <<>> THEN <<>> ELSE Append(reverse(Tail(v)), Head(v))

\* Vec::truncate
truncate(v, len) == IF len < Len(v) THEN SubSeq(v, 1, len) ELSE v

\* A truncate applied to the lines in arrival order: it keeps the oldest.
keep_oldest(lines, max_lines) == truncate(lines, max_lines)

\* console.rs:50-53: reverse, truncate(max_lines), reverse
keep_newest(lines, max_lines) == reverse(truncate(reverse(lines), max_lines))

\* console.rs:27-35, 37-45: the test of one library's filter
library_rejects(library_filter, prefix, rec) ==
    /\ starts_with(rec.target, prefix)
    /\ \/ ~library_filter.enabled
       \/ rec.level > library_filter.log_level_filter

\* EguiLogger::log (console.rs:21-54) on the locked buffer.  The line is
\* format!("target: {}, args: {}", ...), kept as the pair it is made of.
log(buffer, rec) ==
    IF buffer.is_paused THEN buffer
    ELSE IF library_rejects(buffer.filter.wgpu, wgpu, rec) THEN buffer
    ELSE IF library_rejects(buffer.filter.winit, winit, rec) THEN buffer
    ELSE [buffer EXCEPT !.lines =
              keep_newest(Append(@, <<rec.target, rec.args>>), buffer.max_lines)]

ConsoleInit == NoRenderWindow /\ MainStarted

ConsoleFrame ==
    UNCHANGED <<window_vars, loop_vars, plugin_vars, thread_vars, call_vars, image_vars,
                preview, input_state, event_loop>>

\* A log macro reaches EguiLogger::log: the record's level is within
\* log::max_level(), which set_log_level_filter and init keep equal to
\* log_level_filter (console.rs:82-83, 120-122).
Log ==
    /\ (IF record = None THEN 0 ELSE record[1].args) < MaxRecords
    /\ \E target \in Targets, level \in Levels :
           LET rec == [target |-> target, level |-> level,
                       args |-> (IF record = None THEN 0 ELSE record[1].args) + 1]
           IN  /\ level <= LOG_BUFFER.log_level_filter
               /\ record' = Some(rec)
               /\ LOG_BUFFER' = log(LOG_BUFFER, rec)
    /\ ConsoleFrame

\* console.rs:130-132: the Paused checkbox
MenuPaused ==
    /\ LOG_BUFFER' = [LOG_BUFFER EXCEPT !.is_paused = ~@]
    /\ UNCHANGED record
    /\ ConsoleFrame

\* console.rs:134-136, LogBuffer::clear (console.rs:86-88)
MenuClear ==
    /\ LOG_BUFFER.lines # <<>>
    /\ LOG_BUFFER' = [LOG_BUFFER EXCEPT !.lines = <<>>]
    /\ UNCHANGED record
    /\ ConsoleFrame

\* console.rs:141-161: a library's Enabled checkbox and level
MenuLibrary ==
    /\ \E enabled \in BOOLEAN, level \in Levels :
           LET f == [enabled |-> enabled, log_level_filter |-> level]
           IN  \/ LOG_BUFFER' = [LOG_BUFFER EXCEPT !.filter.wgpu = f]
               \/ LOG_BUFFER' = [LOG_BUFFER EXCEPT !.filter.winit = f]
    /\ LOG_BUFFER' # LOG_BUFFER
    /\ UNCHANGED record
    /\ ConsoleFrame

\* console.rs:164-169, LogBuffer::set_log_level_filter (console.rs:81-84)
MenuLevel ==
    /\ \E level \in Levels \ {LOG_BUFFER.log_level_filter} :
           LOG_BUFFER' = [LOG_BUFFER EXCEPT !.log_level_filter = level]
    /\ UNCHANGED record
    /\ ConsoleFrame

ConsoleNext ==
    \/ Log
    \/ MenuPaused
    \/ MenuClear
    \/ MenuLibrary
    \/ MenuLevel

ConsoleSpec == ConsoleInit /\ [][ConsoleNext]_vars

\* ================================================================ claims ====

\* The session the render window holds, where it holds one.
Held(s) == s = renderer_plugin /\ s # NoPlugin

\* The host is inside convert_rgb_data_to_egui_image (render.rs:176).
HostReading == pc = "convert"

\* ---- C1 ----------------------------------------------------------------------
\* C1: once the plugin's entry point has been entered, the host reads the shared
\* buffer only while ready_to_read is true and not yet cleared, or after the
\* worker has returned; it is never reading in a state where the worker may write.
C1_ReadsOnlyInStableWindow ==
    (HostReading /\ worker_pc[renderer_plugin] # "start") =>
        /\ ready_to_read[renderer_plugin] \/ worker_pc[renderer_plugin] = "done"
        /\ ~WorkerMayWrite(renderer_plugin)

\* ---- C2 ----------------------------------------------------------------------
\* C2: in a redraw whose poll_read_request returned true, the flags are still set
\* while the snapshot is being taken (snapshot-then-clear), so the worker has not
\* resumed writing before the snapshot is complete.
C2_SnapshotThenClear ==
    (HostReading /\ poll_result) =>
        /\ read_request[renderer_plugin]
        /\ ready_to_read[renderer_plugin]
        /\ worker_pc[renderer_plugin] # "running"

\* ---- C3 ----------------------------------------------------------------------
\* C3: a host that has observed ready_to_read = TRUE observes every buffer write
\* the worker made before raising it: the snapshot it takes while the worker is
\* still waiting (nothing written since) is the buffer's content.
C3_ReadSeesWritesBeforeReady ==
    [][(HostReading /\ pc' = "reset" /\ poll_result
            /\ worker_pc[renderer_plugin] = "waiting")
        => texture' = <<render_rgb_data[renderer_plugin]>>]_vars

\* ---- C4 ----------------------------------------------------------------------
\* C4: a poll_read_request call returns true exactly when ready_to_read is set,
\* leaves both flags false when it does, and only the worker raises
\* ready_to_read: so one raise makes one poll return true and every later poll
\* returns false until the worker raises it again.
C4_PollCall == pc = "poll" /\ pc' = "check" /\ render_preview_update_requested

C4_OnePollPerReady ==
    [][/\ C4_PollCall =>
            /\ poll_result' = ready_to_read[renderer_plugin]
            /\ ~ready_to_read'[renderer_plugin]
            /\ poll_result' => ~read_request'[renderer_plugin]
            /\ ~poll_result' => UNCHANGED <<read_request, ready_to_read>>
       /\ \A s \in Sessions :
            (~ready_to_read[s] /\ ready_to_read'[s]) =>
                (worker_pc[s] = "running" /\ worker_pc'[s] = "waiting")]_vars

\* A poll has just returned true and both flags are false.
C4_Witness ==
    /\ pc = "check" /\ poll_result
    /\ ~read_request[renderer_plugin] /\ ~ready_to_read[renderer_plugin]

\* ---- C5 ----------------------------------------------------------------------
\* C5: request_read leaves read_request true, and a call made while the flag is
\* already true (no successful poll in between) changes nothing of the session:
\* flags, buffer and worker are as after the first call.
C5_RequestCall ==
    /\ pc = "request" /\ pc' = "poll"
    /\ ~render_preview_update_requested /\ render_preview_update_requested'

C5_RequestReadIdempotent ==
    [][C5_RequestCall =>
        /\ read_request'[renderer_plugin]
        /\ read_request[renderer_plugin] =>
              UNCHANGED <<read_request, ready_to_read, render_rgb_data, worker_pc,
                          worker_result, thread_handle, strong>>]_vars

\* request_read is about to be called a second time before the first was serviced.
C5_Witness ==
    /\ pc = "request" /\ renderer_plugin # NoPlugin /\ render_in_progress
    /\ UpdateDue
    /\ read_request[renderer_plugin]
    /\ ~ready_to_read[renderer_plugin]
    /\ WorkerExecuting(renderer_plugin)

\* ---- C6 ----------------------------------------------------------------------
\* C6: at most one worker thread started for the render window is executing.
C6_AtMostOneWorker ==
    Cardinality({s \in Sessions : WorkerExecuting(s)}) <= 1

\* ---- C7 ----------------------------------------------------------------------
\* C7: while a worker is executing, the library, the buffer and both flags of its
\* session keep a positive strong count, also after the host dropped the plugin.
C7_WorkerKeepsSessionAlive ==
    \A s \in Sessions :
        WorkerExecuting(s) =>
            /\ strong[s].library >= 1
            /\ strong[s].render_rgb_data >= 1
            /\ strong[s].read_request >= 1
            /\ strong[s].ready_to_read >= 1

\* A worker is executing whose plugin the host has replaced: only the worker's
\* references are left.
C7_Witness ==
    \E s \in Sessions :
        /\ WorkerExecuting(s)
        /\ s # renderer_plugin
        /\ strong[s] = ArcCounts(1)

\* ---- C8 ----------------------------------------------------------------------
\* C8: a redraw whose load_plugin fails spawns no worker, creates no session and
\* does not enter the render-in-progress state.
C8_LoadFailureCreatesNothing ==
    [][(pc = "begin" /\ load_result' = "Err") =>
        /\ UNCHANGED <<n_loaded, renderer_plugin, worker_pc, thread_handle, strong>>
        /\ ~render_in_progress => ~render_in_progress']_vars

\* A load has just failed with no render in progress and no plugin held.
C8_Witness ==
    /\ load_result = "Err"
    /\ ~render_in_progress
    /\ renderer_plugin = NoPlugin
    /\ \A s \in Sessions : worker_pc[s] = "none"

\* ---- C9 ----------------------------------------------------------------------
\* C9: for a library that does not export begin_incremental_render no session
\* is created, no worker is spawned and the window does not enter the
\* render-in-progress state.
C9_MissingSymbolIsLoadFailure ==
    \A s \in Sessions :
        (s <= n_loaded /\ ~has_entry_point[s]) =>
            /\ worker_pc[s] = "none"
            /\ ~(Held(s) /\ render_in_progress)

\* ---- C10 ---------------------------------------------------------------------
\* C10: join_thread reports a failed join for a worker that ended with an error.
C10_JoinSurfacesFailure ==
    \A s \in Sessions :
        (join_returned[s] # "none" /\ worker_result[s] = "Err") =>
            join_returned[s] = "failed"

\* ---- C11 ---------------------------------------------------------------------
\* The redraw step that calls join_thread (render.rs:192-193).
C11_JoinPoint == pc = "reset" /\ render_is_finished(renderer_plugin)

\* C11: the host's redraw never waits for a running worker: wherever redraw
\* stands, its next step can be taken whatever the worker is doing, and redraw
\* reaches its join_thread call only where the worker's entry-point call has
\* already returned.
C11_RedrawNeverBlocks ==
    /\ ENABLED Redraw
    /\ C11_JoinPoint => worker_pc[renderer_plugin] = "done"

C11_Witness ==
    /\ C11_JoinPoint
    /\ \E s \in Sessions : WorkerExecuting(s)

\* ---- C12 ---------------------------------------------------------------------
\* A call of join_thread on a session that holds the handle of a worker whose
\* entry-point call has returned.
C12_JoinOfFinished ==
    /\ ~panicked
    /\ thread_handle[Plugin] = "Some"
    /\ worker_pc[Plugin] = "done"

\* C12: where the worker's entry-point call has returned, a call of join_thread
\* terminates (it can complete at once and does not panic), and afterwards the
\* session holds no worker handle.
C12_JoinTerminates ==
    /\ [](C12_JoinOfFinished => ENABLED ApiJoin)
    /\ [][(C12_JoinOfFinished /\ ApiJoin)
              => (thread_handle'[Plugin] = "None" /\ ~panicked')]_vars

C12_Witness ==
    /\ ret = <<"join_thread", "unit">>
    /\ thread_handle[Plugin] = "None"
    /\ worker_pc[Plugin] = "done"

\* ---- C13 ---------------------------------------------------------------------
\* C13: a call of join_thread on a session that holds no handle (the worker was
\* already joined, or none was ever started) returns without failing and leaves
\* the session unchanged.
C13_SecondJoinIdempotent ==
    [][(ApiJoin /\ thread_handle[Plugin] = "None")
           => (~panicked' /\ UNCHANGED <<plugin_vars, thread_vars>>)]_vars

\* ---- C14 ---------------------------------------------------------------------
\* C14: every call of begin_incremental_render, a repeated one on the same
\* RendererPlugin included, starts one worker and leaves both flags false and
\* the buffer filled with the sentinel at the moment the worker starts.
C14_BeginResetsProtocol ==
    [][ApiBegin
           => /\ worker_pc'[Plugin] = "start"
              /\ thread_handle'[Plugin] = "Some"
              /\ ~read_request'[Plugin]
              /\ ~ready_to_read'[Plugin]
              /\ render_rgb_data'[Plugin] = 0
              /\ rgb_vec'.data = Pattern(0, Len(rgb_vec.data))]_vars

\* ---- C15 ---------------------------------------------------------------------
\* C15: once RenderWindow has joined the completed worker it holds no plugin
\* any more (the session is discarded), so that Render can create a new one.
C15_JoinedSessionDiscarded ==
    \A s \in Sessions : join_returned[s] # "none" => ~Held(s)

\* ---- C16 ---------------------------------------------------------------------
\* C16: for the session the window holds, render_is_finished returns true
\* exactly where a worker was started and its entry-point call has returned,
\* whatever the flags are and also after join_thread was called.
C16_FinishedIffWorkerReturned ==
    \A s \in Sessions :
        Held(s) => (render_is_finished(s) <=> worker_pc[s] = "done")

\* ---- C17 ---------------------------------------------------------------------
\* C17: RenderWindow calls request_read only on its current session and only
\* where that session's worker has been spawned and not yet joined; no step
\* raises read_request of a session without such a worker.
C17_RequestOnlyWithWorker ==
    [][/\ C5_RequestCall =>
             /\ thread_handle[renderer_plugin] = "Some"
             /\ worker_pc[renderer_plugin] # "none"
             /\ join_returned[renderer_plugin] = "none"
       /\ \A s \in Sessions :
             (~read_request[s] /\ read_request'[s]) =>
                 (Held(s) /\ thread_handle[s] = "Some" /\ worker_pc[s] # "none")]_vars

C17_Witness ==
    /\ pc = "poll"
    /\ render_preview_update_requested
    /\ read_request[renderer_plugin]
    /\ worker_pc[renderer_plugin] = "done"
    /\ thread_handle[renderer_plugin] = "Some"

\* ---- C18 ---------------------------------------------------------------------
\* C18: after load_plugin, no call of begin_incremental_render, request_read,
\* poll_read_request, render_is_finished, join_thread or
\* convert_rgb_data_to_egui_image, and no step of the worker, changes
\* render_width, render_height, or the length or location of the shared buffer.
C18_DimensionsAndBufferFixed ==
    [][/\ render_width' = render_width
       /\ render_height' = render_height
       /\ Len(rgb_vec'.data) = Len(rgb_vec.data)
       /\ rgb_vec'.ptr = rgb_vec.ptr]_vars

C18_Witness ==
    /\ ret = <<"convert_rgb_data_to_egui_image", <<MaxWrites>>>>
    /\ join_returned[Plugin] = "unit"
    /\ rgb_vec.data = Pattern(MaxWrites, BufferLen(render_width, render_height))
    /\ rgb_vec.data # Pattern(0, BufferLen(render_width, render_height))

\* ---- C19 ---------------------------------------------------------------------
\* C19: for every render_width and render_height above 0 the buffer load_plugin
\* allocates has exactly 3 * render_width * render_height entries, and a
\* conversion reads every index 0 .. 3 * width * height - 1 exactly once and no
\* other.
C19_BufferMatchesDimensions ==
    LET n == 3 * render_width * render_height
    IN  /\ Len(rgb_vec.data) = n
        /\ (ret[1] = "convert_rgb_data_to_egui_image") =>
               /\ Len(reads) = n
               /\ \A i \in 0..(n - 1) : \E k \in 1..n : reads[k] = i

\* ---- C20 ---------------------------------------------------------------------
\* C20: a conversion that returns produces exactly width * height pixels of
\* size [width, height]; the pixel at x + y * width takes R, G, B from buffer
\* entries 3 * (x + y * width), + 1, + 2; for width 2, height 1 and the buffer
\* [1,0,0, 0,1,0] pixel (0,0) is (255,0,0) and pixel (1,0) is (0,255,0).
C20_PixelLayout ==
    [][(ConvertCall /\ ~panicked') =>
          LET w == render_width
              h == render_height
              d == rgb_vec.data
              px == image'.pixels
          IN  /\ image'.size = <<w, h>>
              /\ Len(px) = w * h
              /\ \A x \in 0..(w - 1), y \in 0..(h - 1) :
                     px[x + y * w + 1] = <<Channel(d[3 * (x + y * w) + 1]),
                                           Channel(d[3 * (x + y * w) + 2]),
                                           Channel(d[3 * (x + y * w) + 3])>>
              /\ (w = 2 /\ h = 1 /\ d = <<1000, 0, 0, 0, 1000, 0>>)
                     => px = <<(<<255, 0, 0>>), (<<0, 255, 0>>)>>]_vars

C20_Witness ==
    /\ render_width = 2
    /\ render_height = 1
    /\ rgb_vec.data = <<1000, 0, 0, 0, 1000, 0>>
    /\ image = [size |-> <<2, 1>>, pixels |-> <<(<<255, 0, 0>>), (<<0, 255, 0>>)>>]

\* ---- C21 ---------------------------------------------------------------------
\* A buffer whose every value is 1.0, as load_plugin creates it.
C21_AllOnes == \A i \in 1..Len(rgb_vec.data) : rgb_vec.data[i] = Sentinel

\* C21: a conversion of a buffer whose every value is 1.0 returns an image of
\* width * height pixels in which every channel of every pixel is 255.
C21_SentinelConvertsToWhite ==
    [][(ConvertCall /\ C21_AllOnes /\ ~panicked') =>
          /\ Len(image'.pixels) = render_width * render_height
          /\ \A q \in 1..Len(image'.pixels) : image'.pixels[q] = <<255, 255, 255>>]_vars

C21_Witness ==
    /\ ret = <<"convert_rgb_data_to_egui_image", "Ok">>
    /\ rgb_vec.data = Pattern(0, 3 * render_width * render_height)
    /\ render_width * render_height > 1
    /\ image = [size |-> <<render_width, render_height>>,
                pixels |-> [q \in 1..(render_width * render_height) |-> <<255, 255, 255>>]]

\* ---- C22 ---------------------------------------------------------------------
\* C22: a successful update_render_preview gives the caller back a vector at
\* the same address with the same length and the same capacity as the vector it
\* was given.
C22_SameLengthAndCapacity ==
    [][(UpdateRenderPreview /\ preview'.result[1] = "Ok") =>
          preview'.result[2] = preview.rgb_data]_vars

\* ---- C23 ---------------------------------------------------------------------
\* C23: a successful update_render_preview(image_width, image_height, rgb_data)
\* returns a vector holding 3 * image_width * image_height values.
C23_ReturnsThreeValuesPerPixel ==
    [][(UpdateRenderPreview /\ preview'.result[1] = "Ok") =>
          preview'.result[2].len = 3 * preview.image_width * preview.image_height]_vars

\* ---- C24 ---------------------------------------------------------------------
\* C24: the progress value redraw hands to the UI lies in [0,1] and is 0 while
\* no plugin is loaded; computing it can always proceed (it never blocks) and
\* leaves read_request and ready_to_read of every session as they were.
C24_ProgressClamped ==
    /\ [](/\ render_progress \in 0..1000
          /\ (pc = "ui" /\ renderer_plugin = NoPlugin) => render_progress = 0
          /\ pc = "progress" => ENABLED RedrawProgress)
    /\ [][(pc = "progress" /\ pc' = "ui") => UNCHANGED <<read_request, ready_to_read>>]_vars

C24_Witness ==
    /\ pc = "ui"
    /\ renderer_plugin # NoPlugin
    /\ render_progress = 1000
    /\ WorkerExecuting(renderer_plugin)

\* ---- C25 ---------------------------------------------------------------------
\* C25: while the worker of its session is still executing, RenderWindow
\* converts the shared buffer only in a redraw in which poll_read_request
\* returned true.
C25_ConvertsOnlyAfterPoll ==
    (HostReading /\ WorkerExecuting(renderer_plugin)) => poll_result

\* ---- C26 ---------------------------------------------------------------------
\* C26: a worker whose entry-point call has returned is joined by the host
\* within finitely many redraws; so as long as it is not joined, the window still
\* holds its session with the JoinHandle stored and the render in progress
\* (no redraw can join it otherwise).
C26_FinishedWorkerStaysJoinable ==
    \A s \in Sessions :
        (worker_pc[s] = "done" /\ join_returned[s] = "none")
            => (Held(s) /\ thread_handle[s] = "Some" /\ render_in_progress)

\* ---- C27 ---------------------------------------------------------------------
\* C27: in every state where the worker of the window's session has been joined
\* and render_in_progress is false, the displayed texture equals the final
\* contents of the shared buffer.
C27_FinalImageShown ==
    \A s \in Sessions :
        (Held(s) /\ join_returned[s] # "none" /\ ~render_in_progress)
            => texture = <<render_rgb_data[s]>>

\* ---- C28 ---------------------------------------------------------------------
\* C28: no worker waits forever for ready_to_read to be cleared: a worker that
\* has set ready_to_read and waits belongs to the session the window holds and
\* polls (only poll_read_request of that session clears the flag).
C28_WaitingWorkerIsPolled ==
    \A s \in Sessions :
        worker_pc[s] = "waiting" => (Held(s) /\ render_in_progress)

\* ---- C29 ---------------------------------------------------------------------
\* C29: at the end of every redraw in which render_in_progress is true,
\* render_preview_update_requested is true exactly if read_request of the
\* window's session is true.
C29_BookkeepingMatchesFlag ==
    (pc = "ui" /\ renderer_plugin # NoPlugin /\ render_in_progress)
        => (render_preview_update_requested <=> read_request[renderer_plugin])

C31_ReloadWithoutPluginDropped ==
    (pc = "ui" /\ renderer_plugin = NoPlugin) => ~reload_renderer

\* ---- C32 ---------------------------------------------------------------------
\* C32: poll_read_request called while ready_to_read is false returns false and
\* leaves read_request, ready_to_read and the buffer as they were (a pending
\* request stays pending); no method the host calls turns ready_to_read from
\* false to true.
C32_HostCall ==
    ApiBegin \/ ApiRequestRead \/ ApiPoll \/ ApiIsFinished \/ ApiJoin \/ ApiConvert

C32_PollNotReadyChangesNothing ==
    [][/\ (ApiPoll /\ ~ready_to_read[Plugin]) =>
             /\ ret' = <<"poll_read_request", FALSE>>
             /\ UNCHANGED <<read_request, ready_to_read, render_rgb_data, rgb_vec>>
       /\ C32_HostCall => (ready_to_read'[Plugin] => ready_to_read[Plugin])]_vars

C32_Witness ==
    /\ ret = <<"poll_read_request", FALSE>>
    /\ read_request[Plugin]
    /\ ~ready_to_read[Plugin]
    /\ worker_pc[Plugin] = "running"

\* ---- C33 ---------------------------------------------------------------------
\* C33: once update_render_preview has returned, on success or with the error
\* of an unresolved update_render_preview symbol, the pixel buffer has exactly
\* one owner: the returned vector, or it has been freed.
C33_BufferHasOneOwner ==
    preview # NoPreview =>
        (preview.result # <<>> => preview.owner \in {"result", "freed"})

\* The last pass called get_input_events.
Dispatched == event_loop.event # None /\ event_loop.event # Some("Consumed")

Emitted(e) ==
    \E i \in 1..Len(event_loop.input_events) : event_loop.input_events[i] = e

\* ---- C34 ---------------------------------------------------------------------
\* C34: whenever lmb_pressed is true, cursor_pos_on_pressed is present; a pass
\* emits DoViewportOrbit exactly when lmb_pressed and shift_pressed are both
\* true, and handling it never unwraps an absent press position, whatever the
\* order of presses, releases and mouse motion.
C34_PressPositionPresent ==
    /\ input_state.mouse.lmb_pressed => input_state.mouse.cursor_pos_on_pressed # None
    /\ ~event_loop.panicked
    /\ Dispatched =>
           /\ Emitted("DoViewportOrbit") <=>
                  (input_state.mouse.lmb_pressed /\ input_state.keyboard.shift_pressed)
           /\ Emitted("DoViewportOrbit") <=> event_loop.orbit # None

C34_Witness ==
    /\ event_loop.event = Some("MouseMotion")
    /\ Emitted("DoViewportOrbit")
    /\ event_loop.orbit \notin {None, Some(<<0, 0>>)}

\* ---- C35 ---------------------------------------------------------------------
\* C35: lmb_released and shift_released are false after every pass of the event
\* loop, the one that handled the release included, and a pass emits
\* FinishViewportOrbit exactly if the event it handled was a release.
C35_ReleaseLastsOnePass ==
    /\ ~input_state.mouse.lmb_released
    /\ ~input_state.keyboard.shift_released
    /\ Dispatched =>
           (Emitted("FinishViewportOrbit") <=>
                event_loop.event \in {Some("LmbReleased"), Some("ShiftReleased")})

C35_Witness ==
    /\ event_loop.event = Some("ShiftReleased")
    /\ Emitted("FinishViewportOrbit")
    /\ input_state.mouse.lmb_pressed

\* ---- C36 ---------------------------------------------------------------------
\* C36: the console's buffer never holds more than max_lines lines and holds
\* them in arrival order; a record that is logged while is_paused is true
\* leaves the buffer unchanged, and a record that is accepted becomes the last
\* line, the lines before it staying in order and the oldest being dropped
\* first.
C36_NewestLinesKept ==
    /\ [](/\ Len(LOG_BUFFER.lines) <= LOG_BUFFER.max_lines
          /\ \A i \in 1..Len(LOG_BUFFER.lines), j \in 1..Len(LOG_BUFFER.lines) :
                 i < j => LOG_BUFFER.lines[i][2] < LOG_BUFFER.lines[j][2])
    /\ [][record' # record =>
             LET rec == record'[1]
                 before == LOG_BUFFER.lines
                 after == LOG_BUFFER'.lines
                 kept == IF Len(before) < LOG_BUFFER.max_lines
                         THEN Len(before) ELSE LOG_BUFFER.max_lines - 1
             IN  /\ LOG_BUFFER.is_paused => LOG_BUFFER' = LOG_BUFFER
                 /\ (/\ ~LOG_BUFFER.is_paused
                     /\ ~starts_with(rec.target, wgpu)
                     /\ ~starts_with(rec.target, winit)) => after # before
                 /\ after # before =>
                        /\ Len(after) = kept + 1
                        /\ after[kept + 1] = <<rec.target, rec.args>>
                        /\ SubSeq(after, 1, kept) =
                               SubSeq(before, Len(before) - kept + 1, Len(before))
                 /\ [LOG_BUFFER' EXCEPT !.lines = before] = LOG_BUFFER]_vars

C36_Witness ==
    /\ record # None
    /\ record[1].args = MaxRecords
    /\ Len(LOG_BUFFER.lines) = LOG_BUFFER.max_lines
    /\ LOG_BUFFER.lines[LOG_BUFFER.max_lines] = <<record[1].target, MaxRecords>>
    /\ LOG_BUFFER.lines[1][2] > 1

====
